---- MODULE Spec2Model ----
(***************************************************************************)
(* Rate-limited proxy selection (aiohttp_scraper/proxies.py) and the       *)
(* retrying request executor (aiohttp_scraper/session.py).                 *)
(*                                                                         *)
(* The coordination store (Redis) is the shared state: request records    *)
(* (string keys with an optional expiry) and one status-code list per      *)
(* (domain, proxy).  Every `await` on the store is one atomic step of the  *)
(* caller that issues it; callers interleave between their steps.          *)
(***************************************************************************)
EXTENDS Integers, Sequences, FiniteSets, TLC

\* ---------------------------------------------------------------- bounds
NumCallers == 2        \* tasks/processes that use the pool concurrently
NumProxies == 2        \* len(Proxies._proxies)
NumDomains == 2        \* distinct tldextract(url).domain values
WindowSize == 1        \* window_size_in_minutes, in clock readings
MaxRequests == 1       \* max_requests_per_window
MaxTime == 3           \* last clock reading explored
MicroPeriod == 2       \* every MicroPeriod-th clock reading has microsecond == 0
MaxSelections == 3     \* select_proxy calls explored
MaxRetries == 3        \* largest `retries` argument of _request explored

Callers == 1..NumCallers
Proxies == 1..NumProxies
Domains == 1..NumDomains
StatusCodes == {200, 429}
UserAgents == {"ua1", "ua2"}       \* ScraperSession.user_agents
StartDelays == {1, 15}             \* start_backoff_delay arguments explored
MaxDelays == {3, 300}              \* max_backoff_delay arguments explored

VARIABLES
    now,            \* datetime.datetime.utcnow()
    requests,       \* store: the keys scrape_proxy:<domain>:<proxy>:requests:<stamp>
    status_codes,   \* store: the lists scrape_proxy:<domain>:<proxy>:status_codes
    redis_client,   \* Proxies._redis_client is set
    pc,             \* per caller: the await it is suspended at
    loc,            \* per caller: the locals of its select_proxy / cleanup frame
    calls,          \* number of select_proxy calls started
    returned,       \* the select_proxy calls that returned, in order of return
    sess            \* the frame of one ScraperSession._request call (caller 1)

vars == <<now, requests, status_codes, redis_client, pc, loc, calls, returned, sess>>

\* ------------------------------------------------------- time conversions
\* datetime.isoformat(): the microsecond part is omitted when it is zero.
IsoFormat(t) ==
    [sec |-> t \div MicroPeriod,
     micro |-> IF t % MicroPeriod = 0 THEN <<>> ELSE <<t % MicroPeriod>>]

\* datetime.fromisoformat(): accepts both forms.
FromIsoFormat(s) ==
    s.sec * MicroPeriod + (IF s.micro = <<>> THEN 0 ELSE s.micro[1])

\* strptime(..., "%Y-%m-%dT%H-%M-%S.%f"): the fraction is mandatory.
StrptimeOk(s) == Len(s.micro) = 1

Strptime(s) == s.sec * MicroPeriod + s.micro[1]

EncodeStatus(status, created_at) ==
    [status |-> status, created_at |-> IsoFormat(created_at)]

DecodeStatus(obj) ==
    [status |-> obj.status, created_at |-> FromIsoFormat(obj.created_at)]

\* ------------------------------------------------------------------ store
Key(r) == <<r.domain, r.proxy, r.stamp>>

RecentRequestsAnyDomain(domain, proxy) ==
    {r \in requests : r.proxy = proxy}

\* redis.keys("scrape_proxy:<domain>:<proxy>:requests:*")
RecentRequests(domain, proxy) ==
    {r \in requests : r.domain = domain /\ r.proxy = proxy}

LiveCount(domain, proxy) == Cardinality(RecentRequests(domain, proxy))

\* A key with an expiry is gone once the clock has passed it.
Expired(r, t) == r.has_ttl /\ t > r.expire_at

\* redis.set(key, value): creates the key or overwrites it, dropping its expiry.
RedisSet(store, domain, proxy, stamp) ==
    {r \in store : Key(r) # <<domain, proxy, stamp>>}
        \cup {[domain |-> domain, proxy |-> proxy, stamp |-> stamp,
               has_ttl |-> FALSE, expire_at |-> 0]}

\* redis.pexpire(key, timeout): no effect on a key that does not exist.
RedisPexpire(store, domain, proxy, stamp, at) ==
    {IF Key(r) = <<domain, proxy, stamp>>
        THEN [r EXCEPT !.has_ttl = TRUE, !.expire_at = at]
        ELSE r : r \in store}

\* redis.delete(*keys)
RedisDelete(store, keys) == {r \in store : Key(r) \notin keys}

\* --------------------------------------------------------------- Proxy
\* (a key pattern that matches nothing: no request is ever counted)
CountSlotsBlind(domain, proxy) == MaxRequests

\* get_number_of_free_slots, line 52
CountSlots(domain, proxy) == MaxRequests - LiveCount(domain, proxy)

WindowEnd(t) == t - WindowSize

IsThrottledInclusive(status, window_end) ==
    status.status = 429 /\ status.created_at >= window_end

IsThrottledReversed(status, window_end) ==
    status.status = 429 /\ status.created_at < window_end

\* get_number_of_free_slots, line 60
IsThrottled(status, window_end) ==
    status.status = 429 /\ status.created_at > window_end

GetNumberOfFreeSlots(domain, proxy) ==
    LET num_free_slots == CountSlots(domain, proxy)
        log == status_codes[<<domain, proxy>>]
    IN  IF log # <<>>
        THEN IF IsThrottled(DecodeStatus(log[1]), WindowEnd(now))
             THEN -1
             ELSE num_free_slots
        ELSE num_free_slots

\* ----------------------------------------------------------------- Init
NoLoc ==
    [domain |-> 0, invalid |-> {}, window_end |-> 0, proxy |-> 0,
     stamp |-> IsoFormat(0)]

\* No _request call is being made.
NoSess ==
    [pc |-> "none", use_proxies |-> FALSE, headers_given |-> FALSE,
     expect_json |-> FALSE, retries_arg |-> 0, start_backoff_delay |-> 0,
     max_backoff_delay |-> 0, retries |-> 0, num_tries |-> 0, stats |-> <<>>,
     attempts |-> 0, sleeps |-> 0, user_agent |-> "", response |-> <<>>,
     delay |-> <<>>, outcome |-> "none"]

Init ==
    /\ now = 1
    /\ requests = {}
    /\ status_codes = [k \in Domains \X Proxies |-> <<>>]
    /\ redis_client = FALSE
    /\ pc = [c \in Callers |-> "idle"]
    /\ loc = [c \in Callers |-> NoLoc]
    /\ calls = 0
    /\ returned = <<>>
    /\ sess = NoSess

\* The clock advances; the store drops the keys whose expiry has passed.
Tick ==
    /\ now < MaxTime
    /\ now' = now + 1
    /\ requests' = {r \in requests : ~Expired(r, now + 1)}
    /\ UNCHANGED <<status_codes, redis_client, pc, loc, calls>>

\* ------------------------------------------------------------ Proxies
Idle(c) == pc[c] \in {"idle", "raised"}

\* select_proxy, lines 115-119: connect on first use, then sweep.
SelectProxy(c, domain) ==
    /\ Idle(c)
    /\ calls < MaxSelections
    /\ calls' = calls + 1
    /\ loc' = [loc EXCEPT ![c] =
                  [NoLoc EXCEPT !.domain = domain]]
    /\ pc' = [pc EXCEPT ![c] = IF redis_client THEN "cleanup" ELSE "connect"]
    /\ UNCHANGED <<now, requests, status_codes, redis_client>>

\* setup: aioredis.create_redis_pool, then cleanup.
Setup(c) ==
    /\ pc[c] = "connect"
    /\ redis_client' = TRUE
    /\ pc' = [pc EXCEPT ![c] = "setup_cleanup"]
    /\ UNCHANGED <<now, requests, status_codes, loc, calls>>

\* cleanup, lines 163-165: the keys whose embedded timestamp is before window_end.
IsInvalid(ts, window_end) == ts < window_end

InvalidTimestamps(keys, window_end) ==
    {Key(r) : r \in {k \in keys : IsInvalid(Strptime(k.stamp), window_end)}}

AfterCleanup(c) == IF pc[c] = "setup_cleanup" THEN "cleanup" ELSE "slots"

\* cleanup, lines 151-167: scan the request keys and parse their timestamps.
\* A key written at a clock reading without microseconds does not parse:
\* strptime raises ValueError, which ends cleanup and the select_proxy around it.
CleanupKeys(c) ==
    /\ pc[c] \in {"setup_cleanup", "cleanup"}
    /\ LET keys == requests
       IN  IF \E k \in keys : ~StrptimeOk(k.stamp)
           THEN /\ pc' = [pc EXCEPT ![c] = "raised"]
                /\ loc' = loc
           ELSE LET invalid_timestamps == InvalidTimestamps(keys, WindowEnd(now))
                IN  IF invalid_timestamps = {}
                    THEN /\ pc' = [pc EXCEPT ![c] = AfterCleanup(c)]
                         /\ loc' = loc
                    ELSE /\ pc' = [pc EXCEPT ![c] =
                                      IF pc[c] = "setup_cleanup"
                                      THEN "setup_delete" ELSE "delete"]
                         /\ loc' = [loc EXCEPT ![c].invalid = invalid_timestamps,
                                             ![c].window_end = WindowEnd(now)]
    /\ UNCHANGED <<now, requests, status_codes, redis_client, calls>>

\* cleanup, line 168: bulk delete.
CleanupDelete(c) ==
    /\ pc[c] \in {"setup_delete", "delete"}
    /\ requests' = RedisDelete(requests, loc[c].invalid)
    /\ pc' = [pc EXCEPT ![c] = IF pc[c] = "setup_delete" THEN "cleanup" ELSE "slots"]
    /\ loc' = [loc EXCEPT ![c].invalid = {}, ![c].window_end = 0]
    /\ UNCHANGED <<now, status_codes, redis_client, calls>>

\* select_proxy, line 134
HasCapacity(slots) == slots > 0

\* sorted(..., reverse=True)[0] after shuffle: any proxy with the largest count.
IsBest(free_slots, proxy) == \A q \in Proxies : free_slots[q] <= free_slots[proxy]

\* select_proxy, lines 122-138: one polling round.
FreeSlots(c) ==
    /\ pc[c] = "slots"
    /\ LET free_slots == [p \in Proxies |-> GetNumberOfFreeSlots(loc[c].domain, p)]
       IN  \E p \in Proxies :
             /\ IsBest(free_slots, p)
             /\ IF HasCapacity(free_slots[p])
                THEN /\ pc' = [pc EXCEPT ![c] = "get_url"]
                     /\ loc' = [loc EXCEPT ![c].proxy = p]
                ELSE /\ pc' = [pc EXCEPT ![c] = "sleep"]
                     /\ loc' = loc
    /\ UNCHANGED <<now, requests, status_codes, redis_client, calls>>

\* select_proxy, line 138: asyncio.sleep(5), then the next round.
Sleep(c) ==
    /\ pc[c] = "sleep"
    /\ pc' = [pc EXCEPT ![c] = "slots"]
    /\ UNCHANGED <<now, requests, status_codes, redis_client, loc, calls>>

\* get_url, lines 66-70: the key carries the clock reading; SET without expiry.
GetUrlSet(c) ==
    /\ pc[c] = "get_url"
    /\ requests' = RedisSet(requests, loc[c].domain, loc[c].proxy, IsoFormat(now))
    /\ loc' = [loc EXCEPT ![c].stamp = IsoFormat(now)]
    /\ pc' = [pc EXCEPT ![c] = "pexpire"]
    /\ UNCHANGED <<now, status_codes, redis_client, calls>>

\* get_url, lines 71-76: PEXPIRE, then return the proxy's url.
GetUrlExpire(c) ==
    /\ pc[c] = "pexpire"
    /\ requests' = RedisPexpire(requests, loc[c].domain, loc[c].proxy,
                                loc[c].stamp, now + WindowSize)
    /\ pc' = [pc EXCEPT ![c] = "request"]
    /\ loc' = [loc EXCEPT ![c].stamp = IsoFormat(0)]
    /\ UNCHANGED <<now, status_codes, redis_client, calls>>

\* Proxy.register_status_code, lines 78-82: one LPUSH, newest first.
RedisLpush(lists, domain, proxy, value) ==
    [lists EXCEPT ![<<domain, proxy>>] = <<value>> \o @]

\* (a lookup that stops at the first configured proxy)
MatchingProxyFirst(proxy_url) == CHOOSE p \in Proxies : \A q \in Proxies : p <= q

\* Proxies.register_status_code, lines 143-148: the proxy whose url matches.
MatchingProxy(proxy_url) == CHOOSE p \in Proxies : p = proxy_url

\* session.py lines 68-75: the request made through the proxy answers with a
\* status code, which Proxies.register_status_code (lines 140-148) records for
\* the proxy whose url matches.
Response(c, status_code) ==
    /\ pc[c] = "request"
    /\ status_codes' = RedisLpush(status_codes, loc[c].domain,
                                  MatchingProxy(loc[c].proxy),
                                  EncodeStatus(status_code, now))
    /\ pc' = [pc EXCEPT ![c] = "idle"]
    /\ loc' = [loc EXCEPT ![c] = NoLoc]
    /\ UNCHANGED <<now, requests, redis_client, calls>>

\* session.py lines 68, 101: the request raises; no status code is recorded.
TransportError(c) ==
    /\ pc[c] = "request"
    /\ pc' = [pc EXCEPT ![c] = "idle"]
    /\ loc' = [loc EXCEPT ![c] = NoLoc]
    /\ UNCHANGED <<now, requests, status_codes, redis_client, calls>>

Next ==
    \/ Tick /\ UNCHANGED <<returned, sess>>
    \/ \E c \in Callers, d \in Domains : SelectProxy(c, d) /\ UNCHANGED <<returned, sess>>
    \/ \E c \in Callers : Setup(c) /\ UNCHANGED <<returned, sess>>
    \/ \E c \in Callers : CleanupKeys(c) /\ UNCHANGED <<returned, sess>>
    \/ \E c \in Callers : CleanupDelete(c) /\ UNCHANGED <<returned, sess>>
    \/ \E c \in Callers : FreeSlots(c) /\ UNCHANGED <<returned, sess>>
    \/ \E c \in Callers : Sleep(c) /\ UNCHANGED <<returned, sess>>
    \/ \E c \in Callers : GetUrlSet(c) /\ UNCHANGED <<returned, sess>>
    \/ \E c \in Callers : GetUrlExpire(c) /\ UNCHANGED <<returned, sess>>
    \/ \E c \in Callers, s \in StatusCodes : Response(c, s) /\ UNCHANGED <<returned, sess>>
    \/ \E c \in Callers : TransportError(c) /\ UNCHANGED <<returned, sess>>

Spec == Init /\ [][Next]_vars

\* One caller issuing its select_proxy calls one after another; the calls that
\* returned are logged in `returned`.
LogReturn(c) ==
    /\ GetUrlExpire(c)
    /\ returned' = Append(returned,
                          [domain |-> loc[c].domain, proxy |-> loc[c].proxy,
                           at |-> FromIsoFormat(loc[c].stamp)])
    /\ UNCHANGED sess

NextSeq ==
    \/ Tick /\ UNCHANGED <<returned, sess>>
    \/ \E d \in Domains : SelectProxy(1, d) /\ UNCHANGED <<returned, sess>>
    \/ Setup(1) /\ UNCHANGED <<returned, sess>>
    \/ CleanupKeys(1) /\ UNCHANGED <<returned, sess>>
    \/ CleanupDelete(1) /\ UNCHANGED <<returned, sess>>
    \/ FreeSlots(1) /\ UNCHANGED <<returned, sess>>
    \/ Sleep(1) /\ UNCHANGED <<returned, sess>>
    \/ GetUrlSet(1) /\ UNCHANGED <<returned, sess>>
    \/ LogReturn(1)
    \/ \E s \in StatusCodes : Response(1, s) /\ UNCHANGED <<returned, sess>>
    \/ TransportError(1) /\ UNCHANGED <<returned, sess>>

SpecSeq == Init /\ [][NextSeq]_vars

\* get_url, lines 67-74: the caller is cancelled (or its process dies) at the
\* await between SET and PEXPIRE; the record stays as SET left it.
Interrupt(c) ==
    /\ pc[c] = "pexpire"
    /\ pc' = [pc EXCEPT ![c] = "idle"]
    /\ loc' = [loc EXCEPT ![c] = NoLoc]
    /\ UNCHANGED <<now, requests, status_codes, redis_client, calls>>

\* The select_proxy call of caller 1 is in its polling loop (lines 121-138).
Polling == pc[1] \in {"slots", "sleep"}

\* The steps of caller 1, the task whose select_proxy call polls.
PollerStep ==
    \/ Setup(1)
    \/ CleanupKeys(1)
    \/ CleanupDelete(1)
    \/ FreeSlots(1)
    \/ Sleep(1)
    \/ GetUrlSet(1)
    \/ GetUrlExpire(1)

\* Callers on one domain.  While caller 1 polls, the other callers record no
\* request and no 429; they may be interrupted inside get_url.  The event
\* loop keeps running caller 1 and the clock keeps advancing; nothing makes
\* the other callers take their next step.
NextLive ==
    \/ Tick /\ UNCHANGED <<returned, sess>>
    \/ \E c \in Callers : SelectProxy(c, 1) /\ UNCHANGED <<returned, sess>>
    \/ PollerStep /\ UNCHANGED <<returned, sess>>
    \/ \E c \in Callers \ {1} : Setup(c) /\ UNCHANGED <<returned, sess>>
    \/ \E c \in Callers \ {1} : CleanupKeys(c) /\ UNCHANGED <<returned, sess>>
    \/ \E c \in Callers \ {1} : CleanupDelete(c) /\ UNCHANGED <<returned, sess>>
    \/ \E c \in Callers \ {1} : FreeSlots(c) /\ UNCHANGED <<returned, sess>>
    \/ \E c \in Callers \ {1} : Sleep(c) /\ UNCHANGED <<returned, sess>>
    \/ \E c \in Callers \ {1} :
           ~Polling /\ GetUrlSet(c) /\ UNCHANGED <<returned, sess>>
    \/ \E c \in Callers \ {1} : GetUrlExpire(c) /\ UNCHANGED <<returned, sess>>
    \/ \E c \in Callers \ {1} : Interrupt(c) /\ UNCHANGED <<returned, sess>>
    \/ \E c \in Callers, s \in StatusCodes :
           /\ Polling => s # 429
           /\ Response(c, s)
           /\ UNCHANGED <<returned, sess>>
    \/ \E c \in Callers : TransportError(c) /\ UNCHANGED <<returned, sess>>

SpecLive ==
    /\ Init
    /\ [][NextLive]_vars
    /\ WF_vars(Tick /\ UNCHANGED <<returned, sess>>)
    /\ WF_vars(PollerStep /\ UNCHANGED <<returned, sess>>)


\* ------------------------------------------------------- ScraperSession
\* The task that runs _request, and the domain of its url (args[1]).
Task == 1
UrlDomain == 1

\* A _request call with its arguments, at the top of its loop.
NewSess(use_proxies, headers_given, expect_json, retries, start, max) ==
    [NoSess EXCEPT !.pc = "loop", !.use_proxies = use_proxies,
                   !.headers_given = headers_given, !.expect_json = expect_json,
                   !.retries_arg = retries, !.retries = retries,
                   !.start_backoff_delay = start, !.max_backoff_delay = max]

InitReq ==
    /\ now = 1
    /\ requests = {}
    /\ status_codes = [k \in Domains \X Proxies |-> <<>>]
    /\ redis_client = FALSE
    /\ pc = [c \in Callers |-> "idle"]
    /\ loc = [c \in Callers |-> NoLoc]
    /\ calls = 0
    /\ returned = <<>>
    /\ \E use_proxies \in BOOLEAN, headers_given \in BOOLEAN, expect_json \in BOOLEAN,
          retries \in 0..MaxRetries, start \in StartDelays, max \in MaxDelays :
          sess = NewSess(use_proxies, headers_given, expect_json, retries, start, max)

\* line 58
LoopContinues(retries) == retries > 0

\* lines 59-62: the user-agent is written into kwargs["headers"] when the
\* caller passed headers, and into a temporary dict otherwise.
SentUserAgent(headers_given, user_agent) ==
    IF headers_given THEN user_agent ELSE ""

\* lines 58-65: the loop test, the user-agent, then the proxy.
LoopTop ==
    /\ sess.pc = "loop"
    /\ IF LoopContinues(sess.retries)
       THEN \E ua \in UserAgents :
              /\ IF sess.use_proxies
                 THEN /\ SelectProxy(Task, UrlDomain)
                      /\ sess' = [sess EXCEPT !.pc = "select",
                                     !.user_agent = SentUserAgent(sess.headers_given, ua)]
                 ELSE /\ sess' = [sess EXCEPT !.pc = "http",
                                     !.user_agent = SentUserAgent(sess.headers_given, ua)]
                      /\ UNCHANGED <<now, requests, status_codes, redis_client,
                                     pc, loc, calls>>
       ELSE \* line 119
            /\ sess' = [sess EXCEPT !.pc = "done", !.outcome = "AllRetriesFailed"]
            /\ UNCHANGED <<now, requests, status_codes, redis_client, pc, loc, calls>>
    /\ UNCHANGED returned

\* line 65: an exception of select_proxy is outside the try and ends the call.
SelectRaises ==
    /\ sess.pc = "select"
    /\ pc[Task] = "raised"
    /\ sess' = [sess EXCEPT !.pc = "done", !.outcome = "ValueError"]
    /\ pc' = [pc EXCEPT ![Task] = "idle"]
    /\ UNCHANGED <<now, requests, status_codes, redis_client, loc, calls, returned>>

\* line 65: select_proxy returned; the request is issued next.
SelectReturns ==
    /\ sess.pc = "select"
    /\ pc[Task] = "request"
    /\ sess' = [sess EXCEPT !.pc = "http"]
    /\ UNCHANGED <<now, requests, status_codes, redis_client, pc, loc, calls, returned>>

\* line 106
ShouldSleepAlways(retries) == retries >= 0

ShouldSleep(retries) == retries > 0

Pow2(n) == IF n = 0 THEN 1 ELSE IF n = 1 THEN 2 ELSE IF n = 2 THEN 4 ELSE 8

Min(a, b) == IF a <= b THEN a ELSE b

\* lines 107-110
BackoffDelay(num_tries, start, max) ==
    IF num_tries = 0 THEN start ELSE Min(Pow2(num_tries), max)

JitterWide(delay) == (delay * 3) \div 10

\* line 112: math.floor(delay * 0.2)
Jitter(delay) == (delay * 2) \div 10

\* lines 101-115: the except branch for failure `e` of frame `s`, up to the
\* sleep; the frames it can leave (one per jitter value).
Except(s, e) ==
    LET retries == s.retries - 1
        stats == Append(s.stats, [attempt |-> s.attempts, error |-> e])
    IN  IF ShouldSleep(retries)
        THEN LET delay == BackoffDelay(s.num_tries, s.start_backoff_delay,
                                       s.max_backoff_delay)
             IN  {[s EXCEPT !.pc = "backoff", !.retries = retries, !.stats = stats,
                            !.sleeps = @ + 1, !.response = <<>>,
                            !.delay = <<[base |-> delay, slept |-> delay + j]>>] :
                     j \in (0 - Jitter(delay))..Jitter(delay)}
        ELSE {[s EXCEPT !.pc = "loop", !.retries = retries, !.stats = stats,
                        !.response = <<>>]}

\* The pool's side of an attempt that ends without a status report.
ReleaseTask ==
    IF sess.use_proxies
    THEN TransportError(Task) /\ UNCHANGED returned
    ELSE UNCHANGED <<now, requests, status_codes, redis_client, pc, loc, calls, returned>>

\* line 68: super()._request raises (connection failure, timeout).
HttpRaises ==
    /\ sess.pc = "http"
    /\ sess' \in Except([sess EXCEPT !.attempts = @ + 1, !.user_agent = ""], "transport")
    /\ ReleaseTask

\* line 68: super()._request returns a response.
HttpResponds(status, mime_ok, body_ok) ==
    /\ sess.pc = "http"
    /\ sess' = [sess EXCEPT !.attempts = @ + 1, !.user_agent = "",
                   !.pc = IF sess.use_proxies THEN "register" ELSE "validate",
                   !.response = <<[status |-> status, mime_ok |-> mime_ok,
                                   body_ok |-> body_ok]>>]
    /\ UNCHANGED <<now, requests, status_codes, redis_client, pc, loc, calls, returned>>

\* lines 70-75: report the status code to the pool.
Register ==
    /\ sess.pc = "register"
    /\ Response(Task, sess.response[1].status)
    /\ sess' = [sess EXCEPT !.pc = "validate"]
    /\ UNCHANGED returned

\* lines 77-97: "ok" or the Unsuccessful that is raised.
Validate(response, expect_json) ==
    IF ~(200 <= response.status /\ response.status < 300) THEN "status"
    ELSE IF ~response.mime_ok THEN "mime"
    ELSE IF expect_json /\ ~response.body_ok THEN "json"
    ELSE IF ~expect_json /\ ~response.body_ok THEN "empty"
    ELSE "ok"

\* lines 77-99: validate, then return the response or raise into the except branch.
Validation ==
    /\ sess.pc = "validate"
    /\ LET v == Validate(sess.response[1], sess.expect_json)
       IN  IF v = "ok"
           THEN sess' = [sess EXCEPT !.pc = "done", !.outcome = "returned"]
           ELSE sess' \in Except(sess, v)
    /\ UNCHANGED <<now, requests, status_codes, redis_client, pc, loc, calls, returned>>

\* lines 115-117: the sleep is over.
Wake ==
    /\ sess.pc = "backoff"
    /\ sess' = [sess EXCEPT !.pc = "loop", !.num_tries = @ + 1]
    /\ UNCHANGED <<now, requests, status_codes, redis_client, pc, loc, calls, returned>>

NextReq ==
    \/ Tick /\ UNCHANGED <<returned, sess>>
    \/ LoopTop
    \/ Setup(Task) /\ UNCHANGED <<returned, sess>>
    \/ CleanupKeys(Task) /\ UNCHANGED <<returned, sess>>
    \/ CleanupDelete(Task) /\ UNCHANGED <<returned, sess>>
    \/ FreeSlots(Task) /\ UNCHANGED <<returned, sess>>
    \/ Sleep(Task) /\ UNCHANGED <<returned, sess>>
    \/ GetUrlSet(Task) /\ UNCHANGED <<returned, sess>>
    \/ GetUrlExpire(Task) /\ UNCHANGED <<returned, sess>>
    \/ SelectRaises
    \/ SelectReturns
    \/ HttpRaises
    \/ \E status \in StatusCodes, mime_ok \in BOOLEAN, body_ok \in BOOLEAN :
           HttpResponds(status, mime_ok, body_ok)
    \/ Register
    \/ Validation
    \/ Wake

SpecReq == InitReq /\ [][NextReq]_vars

\* ================================================================ claims
\* Key-embedded timestamp of a request record.
KeyTime(r) == FromIsoFormat(r.stamp)

\* The newest status code recorded for the pair is a 429 made at time T with
\* now < T + window.
CoolingDown(domain, proxy) ==
    LET log == status_codes[<<domain, proxy>>]
    IN  /\ log # <<>>
        /\ log[1].status = 429
        /\ now < FromIsoFormat(log[1].created_at) + WindowSize

\* Callers between the free-slot read that chose (domain, proxy) and the write.
Racing(domain, proxy) ==
    {c \in Callers : /\ pc[c] = "get_url"
                     /\ loc[c].domain = domain
                     /\ loc[c].proxy = proxy}

\* C1 (as stated): for every (domain, proxy) pair the number of live request
\* records is at most max_requests_per_window, with callers running
\* select_proxy concurrently.
C1_QuotaNeverExceeded ==
    \A d \in Domains, p \in Proxies : LiveCount(d, p) <= MaxRequests

\* C1 (amended): for every (domain, proxy) pair the number of live request
\* records is at most max_requests_per_window + K - 1, K the number of callers
\* running select_proxy concurrently (max_requests_per_window for one caller).
C1_QuotaExceededByLessThanCallers ==
    \A d \in Domains, p \in Proxies :
        LiveCount(d, p) <= MaxRequests + NumCallers - 1

C1_Witness ==
    \E d \in Domains, p \in Proxies :
        LiveCount(d, p) = MaxRequests + NumCallers - 1 /\ NumCallers > 1

\* C2: the check-then-act race over-allocates a pair by a bounded amount: its
\* live records, counted together with the selections that have read a free
\* slot for it and not yet written, exceed max_requests_per_window by less
\* than the number K of racing callers, so the excess is never more than K.
C2_BoundedOverAllocation ==
    \A d \in Domains, p \in Proxies :
        /\ LiveCount(d, p) + Cardinality(Racing(d, p)) <= MaxRequests + NumCallers - 1
        /\ LiveCount(d, p) - MaxRequests <= NumCallers

C2_Witness ==
    \E d \in Domains, p \in Proxies :
        /\ LiveCount(d, p) = MaxRequests
        /\ Racing(d, p) # {}

\* C3 (as stated): once a 429 has been recorded for (D, P) at time T, the free
\* slots of P for D are the sentinel -1 at every now < T + window, whatever
\* other status codes are recorded in between, and the normal count when no
\* recorded 429 is that recent.
C3_CooldownWhateverFollows ==
    \A d \in Domains, p \in Proxies :
        LET log == status_codes[<<d, p>>]
            recent == \E i \in 1..Len(log) :
                         /\ log[i].status = 429
                         /\ now < FromIsoFormat(log[i].created_at) + WindowSize
        IN  GetNumberOfFreeSlots(d, p) =
                IF recent THEN -1 ELSE MaxRequests - LiveCount(d, p)

\* C3 (amended): while a 429 recorded for (D, P) at time T is the newest status
\* code recorded for the pair, the free slots of P for D are the sentinel -1 at
\* every now < T + window and the normal count
\* max_requests_per_window - live records at every now >= T + window.
C3_CooldownWhileNewest ==
    \A d \in Domains, p \in Proxies :
        LET log == status_codes[<<d, p>>]
        IN  (log # <<>> /\ log[1].status = 429) =>
                GetNumberOfFreeSlots(d, p) =
                    IF now < FromIsoFormat(log[1].created_at) + WindowSize
                    THEN -1
                    ELSE MaxRequests - LiveCount(d, p)

C3_Witness ==
    \E d \in Domains, p \in Proxies :
        LET log == status_codes[<<d, p>>]
        IN  /\ log # <<>>
            /\ log[1].status = 429
            /\ now >= FromIsoFormat(log[1].created_at) + WindowSize
            /\ LiveCount(d, p) > 0

\* C4 (as stated): select_proxy never writes a request record for, or returns,
\* a proxy that is cooling down for the domain at that moment, also when
\* status codes reported by other callers interleave with the selection.
C4_NeverHandsOutCoolingProxy ==
    \A c \in Callers :
        pc[c] \in {"get_url", "pexpire"} => ~CoolingDown(loc[c].domain, loc[c].proxy)

\* C4 (amended): select_proxy never chooses a proxy that is cooling down for
\* the domain at the moment its free slots are read in the final polling round.
C4_NeverChoosesCoolingProxy ==
    [][\A c \in Callers :
          (pc[c] = "slots" /\ pc'[c] = "get_url") =>
              ~CoolingDown(loc'[c].domain, loc'[c].proxy)]_vars

C4_Witness ==
    \E c \in Callers, q \in Proxies :
        /\ pc[c] = "get_url"
        /\ q # loc[c].proxy
        /\ CoolingDown(loc[c].domain, q)
        /\ LiveCount(loc[c].domain, q) = 0

\* C5: every get_url(D) on proxy P lowers the counted free slots of P for D by
\* exactly one (so N calls within one window lower them by N), also when
\* several calls are made at the same clock reading.
C5_EachGetUrlTakesOneSlot ==
    [][\A c \in Callers :
          (pc[c] = "get_url" /\ pc'[c] = "pexpire") =>
              CountSlots(loc[c].domain, loc[c].proxy)' =
                  CountSlots(loc[c].domain, loc[c].proxy) - 1]_vars

\* C6 (as stated): the count-based result
\* max_requests_per_window - live records is never negative.
C6_CountNeverNegative ==
    \A d \in Domains, p \in Proxies : CountSlots(d, p) >= 0

\* C6 (amended): off the cooldown path get_number_of_free_slots returns the
\* count-based result, which is never below -(K - 1) for K callers selecting
\* concurrently (never negative for one caller).
C6_CountBoundedBelow ==
    \A d \in Domains, p \in Proxies :
        ~CoolingDown(d, p) =>
            /\ GetNumberOfFreeSlots(d, p) = MaxRequests - LiveCount(d, p)
            /\ GetNumberOfFreeSlots(d, p) >= 1 - NumCallers

C6_Witness ==
    \E d \in Domains, p \in Proxies :
        /\ ~CoolingDown(d, p)
        /\ GetNumberOfFreeSlots(d, p) = 1 - NumCallers
        /\ NumCallers > 1

\* A cleanup call ends: nothing to delete, the delete done, or an exception.
CleanupEnds(c) ==
    /\ pc[c] \in {"setup_cleanup", "cleanup", "setup_delete", "delete"}
    /\ pc'[c] \in {"cleanup", "slots", "raised"}
    /\ pc'[c] # pc[c]

CleanupWindowEnd(c) ==
    IF pc[c] \in {"setup_delete", "delete"} THEN loc[c].window_end ELSE WindowEnd(now)

\* C7: cleanup deletes exactly the request records whose key-embedded
\* timestamp is older than now - window: after a cleanup no such record
\* remains, and cleanup never deletes a record that is not older.
C7_CleanupDeletesExactlyTheOld ==
    [][\A c \in Callers :
          /\ CleanupEnds(c) =>
                \A r \in requests' : KeyTime(r) >= CleanupWindowEnd(c)
          /\ (pc[c] \in {"setup_delete", "delete"} /\ pc'[c] # pc[c]) =>
                \A r \in requests \ requests' : KeyTime(r) < CleanupWindowEnd(c)]_vars

\* C9: get_url(D1) and register_status_code(D1, s) on proxy P leave the free
\* slots of P for every other domain D2 unchanged, also when s is 429.
C9_DomainsIndependent ==
    [][\A c \in Callers, d2 \in Domains, p \in Proxies :
          (/\ pc[c] \in {"get_url", "pexpire", "request"}
           /\ pc'[c] # pc[c]
           /\ loc[c].domain # d2)
          => GetNumberOfFreeSlots(d2, p)' = GetNumberOfFreeSlots(d2, p)]_vars

C9_Witness ==
    \E d1 \in Domains, d2 \in Domains, p \in Proxies :
        /\ d1 # d2
        /\ LiveCount(d1, p) > 0
        /\ CoolingDown(d1, p)
        /\ GetNumberOfFreeSlots(d1, p) = -1
        /\ GetNumberOfFreeSlots(d2, p) = MaxRequests

\* With 2 proxies and max_requests_per_window = 1: of two successive
\* select_proxy calls for one domain the second, if it returns while the first
\* call's record is live, returns the other proxy, and no third call returns
\* while both records are live.
SuccessiveCallsAlternate ==
    (NumProxies = 2 /\ MaxRequests = 1) =>
        /\ \A i \in 1..Len(returned), j \in 1..Len(returned) :
              (/\ i < j
               /\ returned[i].domain = returned[j].domain
               /\ returned[j].at <= returned[i].at + WindowSize)
              => returned[i].proxy # returned[j].proxy
        /\ ~ \E i \in 1..Len(returned), j \in 1..Len(returned), k \in 1..Len(returned) :
              /\ i < j /\ j < k
              /\ returned[i].domain = returned[j].domain
              /\ returned[j].domain = returned[k].domain
              /\ returned[k].at <= returned[i].at + WindowSize

\* The third call polls while both proxies hold a live record.
ThirdCallPolls ==
    /\ Len(returned) = 2
    /\ returned[1].domain = returned[2].domain
    /\ returned[1].proxy # returned[2].proxy
    /\ pc[1] = "sleep"
    /\ loc[1].domain = returned[1].domain
    /\ \A p \in Proxies : LiveCount(loc[1].domain, p) = MaxRequests

\* C8: with 2 proxies, max_requests_per_window = 1 and an initially empty
\* store, two immediate successive select_proxy calls for one domain return
\* the two different proxies (the second call does not end any other way),
\* and a third immediate call does not return while both proxies hold a live
\* record.
C8_TwoCallsTwoProxies ==
    (NumProxies = 2 /\ MaxRequests = 1) =>
        /\ SuccessiveCallsAlternate
        /\ ~(/\ Len(returned) = 1
             /\ calls = 2
             /\ returned[1].at = now
             /\ pc[1] = "raised"
             /\ loc[1].domain = returned[1].domain)

\* C10: a _request call with retries = N >= 1 whose attempts all fail makes
\* exactly N attempts and N - 1 backoff sleeps, none after the last failure,
\* and ends by raising AllRetriesFailed with the N failures in attempt order.
C10_Exhaustion ==
    LET N == sess.retries_arg
    IN  /\ (N >= 1 /\ sess.outcome = "AllRetriesFailed") =>
              /\ sess.attempts = N
              /\ sess.sleeps = N - 1
              /\ Len(sess.stats) = N
              /\ \A i \in 1..N : sess.stats[i].attempt = i
        /\ (N >= 1 /\ Len(sess.stats) = N) =>
              /\ sess.attempts = N
              /\ sess.sleeps = N - 1
              /\ sess.pc \in {"loop", "done"}
              /\ sess.pc = "done" => sess.outcome = "AllRetriesFailed"

C10_Witness ==
    /\ sess.outcome = "AllRetriesFailed"
    /\ sess.retries_arg = MaxRetries
    /\ sess.use_proxies
    /\ \E i \in 1..Len(sess.stats), j \in 1..Len(sess.stats) :
          sess.stats[i].error = "transport" /\ sess.stats[j].error = "status"

\* C11: a _request call only ever ends in a returned validated response or in
\* AllRetriesFailed; no failure inside an attempt, a failure of select_proxy
\* included, leaves the call any other way.
C11_OnlyResponseOrExhaustion ==
    sess.pc = "done" => sess.outcome \in {"returned", "AllRetriesFailed"}

\* Status codes recorded in the store, over all (domain, proxy) pairs.
RECURSIVE SumLen(_)
SumLen(S) ==
    IF S = {} THEN 0
    ELSE LET k == CHOOSE k \in S : TRUE
         IN  Len(status_codes[k]) + SumLen(S \ {k})

Registered == SumLen(Domains \X Proxies)

\* Attempts whose HTTP call returned a response.
Answered ==
    sess.attempts
        - Cardinality({i \in 1..Len(sess.stats) : sess.stats[i].error = "transport"})

\* C12 (as stated): for every attempt made through a proxy pool
\* register_status_code is called exactly once, before the next attempt
\* selects a proxy: between attempts there are as many recorded status codes
\* as attempts made.
C12_EveryAttemptRegistered ==
    (sess.use_proxies /\ sess.pc \in {"loop", "select", "done"}) =>
        Registered = sess.attempts

\* C12 (amended): for every attempt made through a proxy pool whose HTTP call
\* returned a response, register_status_code is called exactly once, with the
\* proxy that select_proxy returned for the attempt and the status of the
\* response, before the response is validated and before the next attempt
\* selects a proxy; an attempt whose HTTP call raised registers nothing.
C12_EveryAnswerRegistered ==
    [][/\ (sess.use_proxies' /\ sess.pc' # "register") => Registered' = Answered'
       /\ (sess.use_proxies' /\ sess.pc' = "register") => Registered' = Answered' - 1
       /\ (sess.pc = "register" /\ sess.pc' # "register") =>
             status_codes' =
                 [status_codes EXCEPT ![<<UrlDomain, loc[Task].proxy>>] =
                     <<EncodeStatus(sess.response[1].status, now)>> \o @]]_vars

C12_Witness ==
    /\ sess.use_proxies
    /\ sess.outcome = "returned"
    /\ sess.attempts = 3
    /\ Registered = 2
    /\ \E p \in Proxies : p # 1 /\ status_codes[<<UrlDomain, p>>] # <<>>
    /\ \E i \in 1..Len(sess.stats) : sess.stats[i].error = "transport"

\* C13: on every attempt the request handed to the HTTP call carries a
\* user-agent header whose value is a member of the configured list, whether
\* or not the caller passed a headers argument.
C13_UserAgentFromList ==
    sess.pc = "http" => sess.user_agent \in UserAgents

\* C14: within one call the unjittered backoff delays form a non-decreasing
\* sequence and each is at most max_backoff_delay, for all values of retries,
\* start_backoff_delay and max_backoff_delay.
C14_BackoffMonotoneAndCapped ==
    sess.pc = "backoff" =>
        /\ sess.delay[1].base <= sess.max_backoff_delay
        /\ sess.num_tries >= 1 =>
              BackoffDelay(sess.num_tries - 1, sess.start_backoff_delay,
                           sess.max_backoff_delay) <= sess.delay[1].base

\* C15: every delay slept differs from its unjittered value d by an integer
\* offset of absolute value at most 20% of d: it lies in [0.8*d, 1.2*d] and
\* is never negative.
C15_JitterWithinFifth ==
    sess.pc = "backoff" =>
        LET d == sess.delay[1].base
            slept == sess.delay[1].slept
            offset == IF slept >= d THEN slept - d ELSE d - slept
        IN  /\ 5 * offset <= d
            /\ 8 * d <= 10 * slept
            /\ 10 * slept <= 12 * d
            /\ slept >= 0

C15_Witness ==
    /\ sess.pc = "backoff"
    /\ sess.delay[1].base = 15
    /\ sess.delay[1].slept = 12

\* C16: every request record in the store carries an expiry, in every
\* reachable state, the states between the steps of get_url included.
C16_EveryRecordHasTtl ==
    \A r \in requests : r.has_ttl

\* C18: inside select_proxy every round of free-slot computation is preceded
\* by a sweep: after the wait taken when no proxy has capacity, cleanup runs
\* again before the free slots are recomputed.
C18_SweepBeforeEveryRound ==
    [][\A c \in Callers :
          (pc[c] # "slots" /\ pc'[c] = "slots") =>
              pc[c] \in {"cleanup", "delete"}]_vars

\* C19: a select_proxy call that returns chose a proxy whose free-slot count
\* in its final polling round was > 0 and maximal; the call writes exactly one
\* new request record, for that proxy and the domain of the url, and leaves
\* every other request record and every status-code log unchanged (apart from
\* the records its sweep removes).
C19_OneNewRecordForTheBest ==
    [][\A c \in Callers :
          /\ (pc[c] = "slots" /\ pc'[c] # "slots") =>
                /\ requests' = requests
                /\ status_codes' = status_codes
                /\ pc'[c] = "get_url" =>
                      /\ GetNumberOfFreeSlots(loc[c].domain, loc'[c].proxy) > 0
                      /\ \A q \in Proxies :
                            GetNumberOfFreeSlots(loc[c].domain, q)
                                <= GetNumberOfFreeSlots(loc[c].domain, loc'[c].proxy)
          /\ (pc[c] = "get_url" /\ pc'[c] = "pexpire") =>
                /\ \E r \in requests' \ requests :
                      /\ r.domain = loc[c].domain
                      /\ r.proxy = loc[c].proxy
                      /\ requests' = requests \cup {r}
                      /\ Key(r) \notin {Key(x) : x \in requests}
                /\ status_codes' = status_codes
          /\ (pc[c] = "pexpire" /\ pc'[c] = "request") =>
                /\ {Key(r) : r \in requests'} = {Key(r) : r \in requests}
                /\ \A r \in requests :
                      Key(r) # <<loc[c].domain, loc[c].proxy, loc[c].stamp>>
                          => r \in requests'
                /\ status_codes' = status_codes]_vars

\* All callers but caller 1 are between calls, and every record and every 429
\* the store holds is due to expire while the clock still runs.
Quiescent ==
    /\ \A c \in Callers \ {1} : Idle(c)
    /\ \A r \in requests : r.has_ttl => r.expire_at < MaxTime
    /\ now + WindowSize < MaxTime

\* C20: a select_proxy call that polls because no proxy has capacity
\* eventually returns a proxy: with max_requests_per_window >= 1, while time
\* advances and no further request or 429 is recorded for the domain, under
\* weak fairness of the polling task and of the store's expiry.
C20_BlockedCallReturns ==
    (pc[1] = "sleep" /\ MaxRequests >= 1 /\ Quiescent) ~> (pc[1] = "request")

====
